---- MODULE Spec2Model ----
(***************************************************************************)
(* Model of the TikTok comment walker (src/src/scraper/tiktok-comment.ts): *)
(* the retry-wrapped fetch executor (fetchWithRetry), the reply resolver   *)
(* (getAllReplies) and the top-level comment-page walker (getAllComments). *)
(* The two list endpoints are the environment: every attempt either throws *)
(* or answers with any response of a small set.                            *)
(***************************************************************************)
EXTENDS Integers, Sequences, FiniteSets, TLC

\* RETRY_CONFIG and the page size of both pagination loops.
maxRetries == 3
baseDelay == 1000
maxDelay == 4000
size == 50

\* Bounds of the model.
\* The endpoints answer with cursors 0, size, ..., MaxCursorStep * size.
MaxCursorStep == 1
\* Longest top-level page and longest reply page the endpoints return.
MaxPageLen == 2
MaxReplyLen == 1
\* Requests one reply resolution may issue before the model stops following it.
MaxReplyReqs == 3
\* scrape calls SpecScrapes follows one after the other on one instance.
MaxScrapes == 2

Undefined == "undefined"

Cids == {"a", "b"}
Totals == {0, 1}
Cursors == {k * size : k \in 0..MaxCursorStep}
StatusCodes == {0, 5}

SeqsUpTo(S, n) == UNION {[1..k -> S] : k \in 0..n}

\* RawCommentData: the fields the walker reads.  In the top-level stream comment
\* "a" is a genuine top-level comment; a record of "b" may carry a reply marker
\* naming "a" (the endpoint echoing a reply inline).
RawCommentData ==
    {d \in [cid : Cids, reply_comment_total : Totals, reply_id : {"0", "a"}] :
        d.reply_id # "0" => d.cid = "b"}

\* json.comments[0].share_info: absent, or a title and a url.
NoShare == [title |-> Undefined, url |-> Undefined]
ShareInfo == {[title |-> "", url |-> "u1"], [title |-> "t2", url |-> "u2"]}

\* The responses of the list endpoint Spec follows carry no share metadata.
CommentListResponse ==
    [comments : SeqsUpTo(RawCommentData, MaxPageLen), has_more : {0, 1},
     cursor : Cursors, status_code : StatusCodes, share_info : {NoShare}]

\* The records of the replies endpoint.
ReplyCids == {"r"}
RawReplyData == [cid : ReplyCids, reply_comment_total : {0}, reply_id : {"0", "b"}]

ReplyListResponse ==
    [comments : SeqsUpTo(RawReplyData, MaxReplyLen), has_more : {0, 1},
     cursor : Cursors, status_code : StatusCodes]

\* What a variable holds before the code has assigned it: no page in hand, no
\* record seen, no Comments constructed.
NoJson == [comments |-> <<>>, has_more |-> 0, cursor |-> 0, status_code |-> -1,
           share_info |-> NoShare]
NoReplyJson == [comments |-> <<>>, has_more |-> 0, cursor |-> 0, status_code |-> -1]
NoRecord == [cid |-> Undefined, reply_comment_total |-> 0, reply_id |-> Undefined]
NoResult == [caption |-> "", video_url |-> "", comments |-> <<>>, has_more |-> -1]

VARIABLES
    pc,              \* position of the walk
    viaScrape,       \* TRUE when getAllComments runs inside scrape
    browser, page,   \* TiktokComment.browser / page (TRUE = not null)
    context,         \* TiktokComment.context (TRUE = not null)
    id,              \* TiktokComment.id
    caption, videoUrl, \* locals of getAllComments
    firstShare,      \* the share metadata the walk took first (NoShare: none yet)
    itemId,          \* item_id of the reply request in flight
    openBrowsers,    \* browsers launched and not closed
    scrapes,         \* scrape calls made on the instance
    scrapeEnd,       \* how the last scrape call ended, once its finally block has run
    launched,        \* the scrape call in progress has launched a browser
    other,           \* position of a second, overlapping scrape call on the instance
    \* InstagramComment / FacebookComment (src/src/scraper/instagram-comment.ts,
    \* src/src/utils/platform-detector.ts) and the session file on disk
    platform,        \* which of the two classes the instance is
    savedSession,    \* the session file of the platform: "none", "expired" or "valid"
    aPc,             \* position of the scrape call
    aBrowser, aContext, aPage, hasSession, \* the fields of the instance
    aOpen,           \* browsers launched and not closed
    navigations,     \* page.goto calls made
    loginWall,       \* the local loginWall of scrape (TRUE = an element was found)
    scrolls,         \* iterations of the loop of scrollToLoadComments
    parseCalls,      \* calls of parseComments
    aComments,       \* the Comment list parseComments returned
    aThrown,         \* an error is leaving the try block of scrape
    aResult,         \* the Comments the return statement has built
    aEnd,            \* how the scrape call ended, once its finally block has run
    \* Comments / Comment (src/src/types) and the JSON form of Comments.dict
    cObject,         \* a Comments value
    cDict,           \* Comments.dict of it
    cJson,           \* the JSON text of cDict, as the tree of members the text holds
    cDecoded,        \* the object decoded from cJson
    cPc,             \* how far the value has travelled: "object", "dict", "json", "parsed"
    \* The while loops of getAllComments and getAllReplies side by side, each with
    \* its cursor, its hasMore, whether it is still looping and the cursors it requested
    wLoop, rLoop,
    fed,             \* responses given to the two loops so far
    \* SessionManager (src/src/scraper/instagram-comment.ts): a browser is named
    \* by the startLoginSession call that launched it, 0 is null
    activeBrowser, activeContext, activePage,
    loginOpen,       \* the login browsers launched and not closed
    startPc,         \* per startLoginSession call, its position
    startOk,         \* per startLoginSession call, the success it returned ("none": not yet)
    endPc,           \* position of the completeLoginSession / cancelLoginSession call
    \* The session file of a platform as the three validity checks read it
    sessionFile,     \* exists, and the timestamp and the number of cookies it holds
    now,             \* Date.now()
    hasValid,        \* what hasValidSession returned ("none": not called yet)
    statusValid,     \* the valid of getSessionStatus for the platform
    loaded,          \* what loadSession returned; "threw" is the false of its catch block
    allComments, cursor, hasMore, pageCount, seenCommentIds, json, idx,
    replies, replyCursor, replyHasMore, commentId, parentCommentId, replyJson,
    retryCount, waiting, delays,
    outstanding,     \* requests sent by page.evaluate and not yet answered or failed
    result,          \* the Comments returned by getAllComments
    stopReason,      \* the warning/info logged when the top-level loop ended
    firstOrder,      \* ids of the processed top-level pages, in order of first occurrence
    firstRecord,     \* per id, the first record with that id in the processed pages
    delivered,       \* per comment id, reply records in the processed reply pages
    deliveredIds,    \* per comment id, the ids of those records, in the order received
    cooperative,     \* no attempt threw and every response so far was a cooperative one
    replyReqs,       \* requests issued by the reply resolution in progress
    cursorRepeated,  \* ids whose reply resolution got has_more = 1 with a cursor that did not advance
    topStuck, replyStuck \* every response so far repeated the request's cursor

tikTokVars == <<pc, viaScrape, browser, page, allComments, cursor, hasMore, pageCount,
          seenCommentIds, json, idx, replies, replyCursor, replyHasMore, commentId,
          parentCommentId, replyJson, retryCount, waiting, delays, result,
          stopReason, firstOrder, firstRecord, delivered, replyReqs, cursorRepeated,
          topStuck, replyStuck, context, id, caption, videoUrl, itemId, openBrowsers,
          scrapes, scrapeEnd, other, deliveredIds, cooperative, firstShare,
          outstanding, launched>>

authVars == <<platform, savedSession, aPc, aBrowser, aContext, aPage, hasSession, aOpen,
              navigations, loginWall, scrolls, parseCalls, aComments, aThrown, aResult,
              aEnd>>

codecVars == <<cObject, cDict, cJson, cDecoded, cPc>>
guardVars == <<wLoop, rLoop, fed>>
\* The variables outside the scrapers, and those outside the JSON form.
loginVars == <<activeBrowser, activeContext, activePage, loginOpen, startPc, startOk, endPc>>
validityVars == <<sessionFile, now, hasValid, statusValid, loaded>>
sideVars == <<codecVars, guardVars, loginVars, validityVars>>
codecFrame == <<tikTokVars, authVars, guardVars, loginVars, validityVars>>
guardFrame == <<tikTokVars, authVars, codecVars, loginVars, validityVars>>
validityFrame == <<tikTokVars, authVars, codecVars, guardVars, loginVars>>
\* What the login calls leave alone; completeLoginSession writes the session file.
authNoFile == <<platform, aPc, aBrowser, aContext, aPage, hasSession, aOpen, navigations,
                loginWall, scrolls, parseCalls, aComments, aThrown, aResult, aEnd>>
loginFrame == <<tikTokVars, authNoFile, codecVars, guardVars, validityVars>>

vars == <<tikTokVars, authVars, codecVars, guardVars, loginVars, validityVars>>

walkVars == <<allComments, cursor, hasMore, pageCount, seenCommentIds, json, idx>>
replyVars == <<replies, replyCursor, replyHasMore, commentId, parentCommentId, replyJson>>
fetchVars == <<retryCount, waiting, delays, outstanding>>
histVars == <<firstOrder, firstRecord, delivered, replyReqs, cursorRepeated, topStuck,
              replyStuck, deliveredIds, cooperative>>
lifeVars == <<context, openBrowsers, scrapes, scrapeEnd, launched>>
metaVars == <<caption, videoUrl, firstShare>>
\* The variables no step of the walk itself changes.
frameVars == <<other, authVars, sideVars>>

----------------------------------------------------------------------------
\* Pure parts of the code.

\* parseComment with the record's own reply_id taking precedence over the caller's
\* parentCommentId.
parseCommentReplyIdFirst(data, rs, parentId) ==
    [comment_id |-> data.cid,
     total_reply |-> data.reply_comment_total,
     replies |-> rs,
     parent_comment_id |->
        IF data.reply_id # Undefined /\ data.reply_id # "0" THEN data.reply_id
        ELSE parentId]

\* parseComment: parent_comment_id = parentCommentId || (reply_id && reply_id !== "0" ? reply_id : undefined)
parseComment(data, rs, parentId) ==
    [comment_id |-> data.cid,
     total_reply |-> data.reply_comment_total,
     replies |-> rs,
     parent_comment_id |->
        IF parentId # Undefined THEN parentId
        ELSE IF data.reply_id # Undefined /\ data.reply_id # "0" THEN data.reply_id
        ELSE Undefined]

\* A linear backoff in place of the exponential one.
RetryDelayLinear(n) ==
    LET d == baseDelay * (n + 1) IN IF d < maxDelay THEN d ELSE maxDelay

\* Math.min(baseDelay * 2 ** retryCount, maxDelay)
RetryDelay(n) ==
    LET d == baseDelay * 2 ^ n IN IF d < maxDelay THEN d ELSE maxDelay

\* One retry too many: retryCount <= maxRetries.
ShouldRetryOffByOne(n) == n <= maxRetries

\* A catch block that retries whatever the retry count.
ShouldRetryAlways(n) == TRUE

\* retryCount < RETRY_CONFIG.maxRetries
ShouldRetry(n) == n < maxRetries

\* Replies fetched for every record, whatever its reply_comment_total.
HasRepliesAlways(d) == TRUE

\* if (commentData.reply_comment_total > 0)
HasReplies(d) == d.reply_comment_total > 0

\* The next cursor computed from the cursor of the request and the page size.
NextCursorPlusSize(cur, j) == cur + size

\* const newCursor = json.cursor / cursor = json.cursor
NextCursor(cur, j) == j.cursor

\* The query of a list request: count is size.toString(), cursor the loop's cursor.
ListRequest(cur) == [count |-> size, cursor |-> cur]

\* A hasMore that is true whatever the response says.
HasMoreAlways(j) == TRUE

\* hasMore = json.has_more === 1
HasMore(j) == j.has_more = 1

\* The status_code check left out.
StatusNeverFailed(j) == FALSE

\* json.status_code && json.status_code !== 0
StatusFailed(j) == j.status_code # 0

\* !json.comments || json.comments.length === 0
EmptyPage(j) == Len(j.comments) = 0

\* The seen-set check left out.
NeverDuplicate(seen, cid) == FALSE

\* seenCommentIds.has(commentData.cid)
IsDuplicate(seen, cid) == cid \in seen

\* A guard that lets an unchanged cursor through.
CursorStalledOnlyBackwards(more, newCursor, cur) == more /\ newCursor < cur

\* The walker's guard written like the reply resolver's.
CursorStalledMinusSize(more, newCursor, cur) == more /\ newCursor <= cur - size

\* getAllComments: hasMore && newCursor <= cursor
CursorStalled(more, newCursor, cur) == more /\ newCursor <= cur

\* getAllReplies: cursor = json.cursor; hasMore && json.cursor <= cursor - size
ReplyCursorStalled(more, jsonCursor, cur) == more /\ jsonCursor <= cur - size

\* Each page put in front of the replies collected so far.
PushRepliesPrepend(rs, j, parentId) ==
    [i \in 1..Len(j.comments) |-> parseComment(j.comments[i], <<>>, parentId)] \o rs

\* The replies of the last page only: the list replaced instead of extended.
PushRepliesLastPage(rs, j, parentId) ==
    [i \in 1..Len(j.comments) |-> parseComment(j.comments[i], <<>>, parentId)]

\* Each reply given the replies collected before it as its own replies.
PushRepliesNested(rs, j, parentId) ==
    rs \o [i \in 1..Len(j.comments) |-> parseComment(j.comments[i], rs, parentId)]

\* getAllReplies: for (const replyData of json.comments) replies.push(parseComment(replyData, [], parentCommentId))
PushReplies(rs, j, parentId) ==
    rs \o [i \in 1..Len(j.comments) |-> parseComment(j.comments[i], <<>>, parentId)]

\* The ids of a page, and where an id first occurs in it.
HasCid(recs, c) == \E i \in 1..Len(recs) : recs[i].cid = c
FirstIndex(recs, c) == CHOOSE i \in 1..Len(recs) :
    recs[i].cid = c /\ \A k \in 1..(i - 1) : recs[k].cid # c

\* order extended by the ids of recs it does not hold yet, each once, in page order.
RECURSIVE FirstOccurrences(_, _)
FirstOccurrences(order, recs) ==
    IF recs = <<>> THEN order
    ELSE IF \E k \in 1..Len(order) : order[k] = Head(recs).cid
         THEN FirstOccurrences(order, Tail(recs))
         ELSE FirstOccurrences(Append(order, Head(recs).cid), Tail(recs))

\* if (!caption && json.comments[0]?.share_info) caption = share_info.title ?? ""
CaptureCaption(cap, j) ==
    IF cap = "" /\ j.share_info # NoShare THEN j.share_info.title ELSE cap

\* ... videoUrl = share_info.url ?? "", under the same condition on caption.
CaptureVideoUrl(cap, url, j) ==
    IF cap = "" /\ j.share_info # NoShare THEN j.share_info.url ELSE url

\* The Comments built with the has_more of the page in hand.
NewCommentsUpstreamHasMore(cs) ==
    [caption |-> caption, video_url |-> videoUrl, comments |-> cs,
     has_more |-> json.has_more]

\* new Comments(caption, videoUrl, allComments, 0)
NewComments(cs) ==
    [caption |-> caption, video_url |-> videoUrl, comments |-> cs, has_more |-> 0]

----------------------------------------------------------------------------
InitTikTok ==
    /\ pc = "idle" /\ viaScrape = FALSE /\ browser = FALSE /\ page = FALSE
    /\ allComments = <<>> /\ cursor = 0 /\ hasMore = TRUE /\ pageCount = 0
    /\ seenCommentIds = {} /\ json = NoJson /\ idx = 0
    /\ replies = <<>> /\ replyCursor = 0 /\ replyHasMore = TRUE
    /\ commentId = Undefined /\ parentCommentId = Undefined /\ replyJson = NoReplyJson
    /\ retryCount = 0 /\ waiting = FALSE /\ delays = <<>> /\ outstanding = 0
    /\ result = NoResult /\ stopReason = "none"
    /\ firstOrder = <<>> /\ firstRecord = [c \in Cids |-> NoRecord]
    /\ delivered = [c \in Cids |-> 0] /\ replyReqs = 0 /\ cursorRepeated = {}
    /\ topStuck = TRUE /\ replyStuck = TRUE
    /\ context = FALSE /\ id = "" /\ caption = "" /\ videoUrl = "" /\ itemId = ""
    /\ openBrowsers = 0 /\ scrapes = 0 /\ scrapeEnd = "none" /\ launched = FALSE
    /\ other = "idle" /\ firstShare = NoShare
    /\ deliveredIds = [c \in Cids |-> <<>>] /\ cooperative = TRUE

\* The Comments of the Instagram and Facebook scrapers: the constructor of
\* Comments with has_more 0; needs_auth and auth_message default to false and "".
NoAuthResult ==
    [caption |-> "", video_url |-> "", comments |-> <<>>, has_more |-> -1,
     needs_auth |-> FALSE, auth_message |-> ""]

\* A new InstagramComment or FacebookComment, and the session file as it is.
InitAuth(p, ss) ==
    /\ platform = p /\ savedSession = ss /\ aPc = "idle"
    /\ aBrowser = FALSE /\ aContext = FALSE /\ aPage = FALSE /\ hasSession = FALSE
    /\ aOpen = 0 /\ navigations = 0 /\ loginWall = FALSE /\ scrolls = 0
    /\ parseCalls = 0 /\ aComments = <<>> /\ aThrown = FALSE
    /\ aResult = NoAuthResult /\ aEnd = "none"

\* A primitive JavaScript value is written as its literal: 'a' is a string,
\* 0 a number, true and false the booleans.
JsUndefined == "undefined"
JsNull == "null"
JsNaN == "NaN"

\* new Comments("", "", [], 0): needs_auth and auth_message take their defaults.
EmptyComments ==
    [caption |-> "''", video_url |-> "''", comments |-> <<>>, has_more |-> "0",
     needs_auth |-> "false", auth_message |-> "''"]

\* No dict, text or decoded object yet.
NoCommentsData == [comments |-> <<>>]

InitCodec(o) ==
    /\ cObject = o /\ cPc = "object"
    /\ cDict = NoCommentsData /\ cJson = NoCommentsData /\ cDecoded = NoCommentsData

\* let cursor = 0; let hasMore = true; and the first request, with cursor 0.
NewLoop == [cursor |-> 0, hasMore |-> TRUE, looping |-> TRUE, requests |-> <<0>>]

InitGuards == wLoop = NewLoop /\ rLoop = NewLoop /\ fed = 0

MaxStarts == 2
MaxTimestamp == 1
MaxCookies == 1
\* const SESSION_EXPIRY_MS = 7 * 24 * 60 * 60 * 1000
SESSION_EXPIRY_MS == 604800000

\* The startLoginSession calls the model follows.
StartCalls == 1..MaxStarts

\* A new SessionManager: activeBrowser, activeContext and activePage are null.
InitLogin ==
    /\ activeBrowser = 0 /\ activeContext = 0 /\ activePage = 0 /\ loginOpen = {}
    /\ startPc = [i \in StartCalls |-> "idle"] /\ startOk = [i \in StartCalls |-> "none"]
    /\ endPc = "idle"

\* existsSync(sessionPath) is false.
NoSessionFile == [exists |-> FALSE, timestamp |-> 0, cookies |-> 0]

\* A session file and a clock, and none of the three checks made yet.
InitValidity(f, t) ==
    /\ sessionFile = f /\ now = t
    /\ hasValid = "none" /\ statusValid = "none" /\ loaded = "none"

InitRest == InitGuards /\ InitLogin /\ InitValidity(NoSessionFile, 0)

Init == InitTikTok /\ InitAuth("instagram", "none") /\ InitCodec(EmptyComments) /\ InitRest

\* A fetchWithRetry that never finds the page missing.
NotInitializedNever == FALSE

\* fetchWithRetry: if (!this.page) throw new Error("Browser not initialized")
NotInitialized == ~page

\* A first call of fetchWithRetry(url): retryCount = 0, and the request is sent
\* unless this.page is null.
StartFetch ==
    /\ retryCount' = 0 /\ waiting' = FALSE /\ delays' = <<>>
    /\ outstanding' = outstanding + (IF NotInitialized THEN 0 ELSE 1)

\* The request in flight is answered and the loop calls fetchWithRetry again.
AnsweredThenStartFetch ==
    /\ retryCount' = 0 /\ waiting' = FALSE /\ delays' = <<>>
    /\ outstanding' = outstanding - 1 + (IF NotInitialized THEN 0 ELSE 1)

\* The request is answered, or its last attempt has failed: the call returns.
\* The values of "no call in progress" are those of a first call.
EndFetch ==
    /\ retryCount' = 0 /\ waiting' = FALSE /\ delays' = <<>>
    /\ outstanding' = outstanding - 1

\* scrape up to the first await of initBrowser: if (this.browser) return, else
\* chromium.launch is awaited.  n is the number of calls the specification follows.
scrape(n) ==
    /\ pc \in {"idle", "ended"} /\ scrapes < n
    /\ scrapes' = scrapes + 1 /\ scrapeEnd' = "none" /\ viaScrape' = TRUE
    /\ launched' = FALSE
    /\ pc' = IF browser THEN "ready" ELSE "launch"
    /\ UNCHANGED <<browser, page, context, openBrowsers, id, itemId, metaVars, walkVars,
                   replyVars, fetchVars, result, stopReason, histVars, frameVars>>

\* initBrowser: this.browser = await chromium.launch(...)
initBrowser ==
    /\ pc = "launch"
    /\ browser' = TRUE /\ openBrowsers' = openBrowsers + 1 /\ launched' = TRUE
    /\ pc' = "newContext"
    /\ UNCHANGED <<viaScrape, page, context, scrapes, scrapeEnd, id, itemId, metaVars,
                   walkVars, replyVars, fetchVars, result, stopReason, histVars, frameVars>>

\* initBrowser: this.context = await this.browser.newContext(...)
newContext ==
    /\ pc = "newContext"
    /\ context' = TRUE /\ pc' = "newPage"
    /\ UNCHANGED <<viaScrape, browser, page, openBrowsers, scrapes, scrapeEnd, launched, id,
                   itemId, metaVars, walkVars, replyVars, fetchVars, result, stopReason, histVars,
                   frameVars>>

\* initBrowser: this.page = await this.context.newPage()
newPage ==
    /\ pc = "newPage"
    /\ page' = TRUE /\ pc' = "goto"
    /\ UNCHANGED <<viaScrape, browser, lifeVars, id, itemId, metaVars, walkVars, replyVars,
                   fetchVars, result, stopReason, histVars, frameVars>>

\* initBrowser: await this.page.goto(BASE_URL), waitForTimeout(2000), return.
gotoBaseUrl ==
    /\ pc = "goto"
    /\ pc' = "ready"
    /\ UNCHANGED <<viaScrape, browser, page, lifeVars, id, itemId, metaVars, walkVars,
                   replyVars, fetchVars, result, stopReason, histVars, frameVars>>

\* One of the awaits of initBrowser rejects: the error leaves initBrowser and the
\* try block of scrape.
initBrowserThrows ==
    /\ pc \in {"launch", "newContext", "newPage", "goto"}
    /\ pc' = "thrown"
    /\ UNCHANGED <<viaScrape, browser, page, lifeVars, id, itemId, metaVars, walkVars,
                   replyVars, fetchVars, result, stopReason, histVars, frameVars>>

\* getAllComments up to its first await: the locals, pageCount++, the first
\* fetchWithRetry, which throws when this.page is null.
getAllComments ==
    /\ pc \in {"idle", "ready"}
    /\ id' = "v1"
    /\ allComments' = <<>> /\ cursor' = 0 /\ hasMore' = TRUE /\ seenCommentIds' = {}
    /\ caption' = "" /\ videoUrl' = "" /\ firstShare' = NoShare /\ pageCount' = 1
    /\ result' = NoResult /\ stopReason' = "none"
    /\ firstOrder' = <<>> /\ firstRecord' = [c \in Cids |-> NoRecord]
    /\ delivered' = [c \in Cids |-> 0] /\ cursorRepeated' = {}
    /\ deliveredIds' = [c \in Cids |-> <<>>] /\ cooperative' = TRUE
    /\ topStuck' = TRUE
    /\ pc' = IF NotInitialized THEN "thrown" ELSE "top_fetch"
    /\ StartFetch
    /\ UNCHANGED <<viaScrape, browser, page, lifeVars, itemId, json, idx, replyVars,
                   replyReqs, replyStuck, frameVars>>

\* The end of getAllComments: return new Comments(caption, videoUrl, allComments, 0).
ReturnComments(reason) ==
    /\ pc' = "done" /\ result' = NewComments(allComments) /\ stopReason' = reason
    /\ json' = NoJson /\ idx' = 0

\* The end of getAllReplies and the caller's allComments.push(parseComment(commentData, replies)).
ReturnReplies(rs) ==
    /\ replies' = <<>> /\ replyJson' = NoReplyJson /\ replyCursor' = 0 /\ replyHasMore' = TRUE
    /\ commentId' = Undefined /\ parentCommentId' = Undefined
    /\ replyReqs' = 0 /\ replyStuck' = TRUE /\ itemId' = ""
    /\ allComments' = Append(allComments, parseComment(json.comments[idx], rs, Undefined))
    /\ idx' = idx + 1 /\ pc' = "top_loop"

\* fetchWithRetry, catch branch with retries left: compute the delay and wait.
FetchThrows ==
    /\ pc \in {"top_fetch", "reply_fetch"} /\ ~waiting
    /\ ShouldRetry(retryCount)
    /\ delays' = Append(delays, RetryDelay(retryCount)) /\ waiting' = TRUE
    /\ outstanding' = outstanding - 1
    /\ topStuck' = (topStuck /\ pc # "top_fetch")
    /\ replyStuck' = (replyStuck /\ pc # "reply_fetch")
    /\ cooperative' = FALSE
    /\ UNCHANGED <<pc, viaScrape, browser, page, walkVars, replyVars, retryCount, result,
                   stopReason, firstOrder, firstRecord, delivered, replyReqs,
                   cursorRepeated, deliveredIds, lifeVars, id, itemId, metaVars,
                   frameVars>>

\* fetchWithRetry after the delay: return this.fetchWithRetry(url, retryCount + 1).
RetryAfterDelay ==
    /\ pc \in {"top_fetch", "reply_fetch"} /\ waiting
    /\ waiting' = FALSE /\ retryCount' = retryCount + 1
    /\ outstanding' = outstanding + (IF NotInitialized THEN 0 ELSE 1)
    /\ pc' = IF NotInitialized THEN "thrown" ELSE pc
    /\ UNCHANGED <<viaScrape, browser, page, walkVars, replyVars, delays, result,
                   stopReason, histVars, lifeVars, id, itemId, metaVars, frameVars>>

\* A null payload of the list request thrown instead of ending the loop.
TopFetchExhaustedThrows ==
    /\ pc = "top_fetch" /\ ~waiting /\ ~ShouldRetry(retryCount)
    /\ pc' = "thrown"
    /\ UNCHANGED <<viaScrape, browser, page, walkVars, replyVars, fetchVars, result,
                   stopReason, histVars, lifeVars, id, itemId, metaVars, frameVars>>

\* fetchWithRetry gives up (return null) inside getAllComments: if (!json) break.
TopFetchExhausted ==
    /\ pc = "top_fetch" /\ ~waiting /\ ~ShouldRetry(retryCount)
    /\ topStuck' = FALSE
    /\ EndFetch
    /\ ReturnComments("null")
    /\ UNCHANGED <<viaScrape, browser, page, allComments, cursor, hasMore, pageCount,
                   seenCommentIds, replyVars, firstOrder, firstRecord,
                   delivered, replyReqs, cursorRepeated, replyStuck, deliveredIds,
                   cooperative, lifeVars, id, itemId, metaVars, frameVars>>

\* fetchWithRetry gives up (return null) inside getAllReplies: if (!json) break.
ReplyFetchExhausted ==
    /\ pc = "reply_fetch" /\ ~waiting /\ ~ShouldRetry(retryCount)
    /\ EndFetch
    /\ ReturnReplies(replies)
    /\ UNCHANGED <<viaScrape, browser, page, cursor, hasMore, pageCount, seenCommentIds,
                   json, result, stopReason, firstOrder, firstRecord, delivered,
                   cursorRepeated, topStuck, deliveredIds, cooperative, lifeVars, id,
                   metaVars, frameVars>>

\* A top-level response that repeats the request's cursor with has_more = 1 and
\* a non-empty page of comments without replies.
StuckTopResponse(j) ==
    /\ ~StatusFailed(j) /\ ~EmptyPage(j) /\ j.has_more = 1 /\ j.cursor = cursor
    /\ \A i \in 1..Len(j.comments) : j.comments[i].reply_comment_total = 0

\* A cooperative top-level response to the request in flight: status_code 0, a
\* cursor beyond the request's when has_more = 1, ids that are new and distinct.
CooperativeTopResponse(j) ==
    /\ j.status_code = 0
    /\ j.has_more = 1 => j.cursor > cursor
    /\ \A i \in 1..Len(j.comments) :
          /\ \A k \in 1..Len(firstOrder) : firstOrder[k] # j.comments[i].cid
          /\ \A k \in 1..(i - 1) : j.comments[k].cid # j.comments[i].cid

\* getAllComments from the answer of a list request to the for loop: the
\* status_code and empty-page checks.
TopResponse(j) ==
    /\ pc = "top_fetch" /\ ~waiting
    /\ topStuck' = (topStuck /\ StuckTopResponse(j))
    /\ cooperative' = (cooperative /\ CooperativeTopResponse(j))
    /\ EndFetch
    /\ IF StatusFailed(j) THEN
          ReturnComments("status") /\ UNCHANGED <<firstOrder, firstRecord, metaVars>>
       ELSE IF EmptyPage(j) THEN
          ReturnComments("empty") /\ UNCHANGED <<firstOrder, firstRecord, metaVars>>
       ELSE
          /\ json' = j /\ pc' = "top_loop" /\ idx' = 1
          /\ caption' = CaptureCaption(caption, j)
          /\ videoUrl' = CaptureVideoUrl(caption, videoUrl, j)
          /\ firstShare' = IF firstShare = NoShare THEN j.share_info ELSE firstShare
          /\ firstOrder' = FirstOccurrences(firstOrder, j.comments)
          /\ firstRecord' = [c \in Cids |->
                IF firstRecord[c] # NoRecord \/ ~HasCid(j.comments, c) THEN firstRecord[c]
                ELSE j.comments[FirstIndex(j.comments, c)]]
          /\ UNCHANGED <<result, stopReason>>
    /\ UNCHANGED <<viaScrape, browser, page, allComments, cursor, hasMore, pageCount,
                   seenCommentIds, replyVars, delivered, replyReqs, cursorRepeated,
                   replyStuck, deliveredIds, lifeVars, id, itemId, frameVars>>

\* One iteration of for (const commentData of json.comments): skip a duplicate,
\* push a comment without replies, or call getAllReplies(cid, cid), which runs
\* to its first fetchWithRetry.
ForIteration ==
    /\ pc = "top_loop" /\ idx <= Len(json.comments)
    /\ LET commentData == json.comments[idx] IN
       IF IsDuplicate(seenCommentIds, commentData.cid) THEN
          /\ idx' = idx + 1
          /\ UNCHANGED <<pc, allComments, seenCommentIds, replyVars, fetchVars, replyReqs,
                         replyStuck, itemId>>
       ELSE
          /\ seenCommentIds' = seenCommentIds \cup {commentData.cid}
          /\ IF HasReplies(commentData) THEN
                /\ commentId' = commentData.cid /\ parentCommentId' = commentData.cid
                /\ replies' = <<>> /\ replyCursor' = 0 /\ replyHasMore' = TRUE
                /\ replyReqs' = 1 /\ replyStuck' = TRUE /\ itemId' = id
                /\ pc' = IF NotInitialized THEN "thrown" ELSE "reply_fetch"
                /\ StartFetch
                /\ UNCHANGED <<allComments, idx, replyJson>>
             ELSE
                /\ allComments' = Append(allComments, parseComment(commentData, <<>>, Undefined))
                /\ idx' = idx + 1
                /\ UNCHANGED <<pc, replyVars, fetchVars, replyReqs, replyStuck, itemId>>
    /\ UNCHANGED <<viaScrape, browser, page, cursor, hasMore, pageCount, json, result,
                   stopReason, firstOrder, firstRecord, delivered, cursorRepeated,
                   topStuck, deliveredIds, cooperative, lifeVars, id, metaVars,
                   frameVars>>

\* The for loop left before its last record.
LoopDoneEarly == TRUE

\* for (const commentData of json.comments) has run through the page.
LoopDone == idx > Len(json.comments)

\* getAllComments after the for loop: hasMore, the cursor check, the next
\* request or the return.
EndOfPage ==
    /\ pc = "top_loop" /\ LoopDone
    /\ LET more == HasMore(json)
           newCursor == NextCursor(cursor, json)
       IN /\ hasMore' = more
          /\ IF CursorStalled(more, newCursor, cursor) THEN
                ReturnComments("stalled") /\ UNCHANGED <<cursor, pageCount, fetchVars>>
             ELSE IF more THEN
                /\ cursor' = newCursor /\ pageCount' = pageCount + 1
                /\ pc' = IF NotInitialized THEN "thrown" ELSE "top_fetch"
                /\ StartFetch
                /\ UNCHANGED <<result, stopReason, json, idx>>
             ELSE
                /\ cursor' = newCursor
                /\ ReturnComments("has_more") /\ UNCHANGED <<pageCount, fetchVars>>
    /\ UNCHANGED <<viaScrape, browser, page, allComments, seenCommentIds,
                   replyVars, histVars, lifeVars, id, itemId, metaVars, frameVars>>

\* A reply response that repeats the request's cursor with has_more = 1 and a
\* non-empty list.
StuckReplyResponse(j) ==
    ~StatusFailed(j) /\ ~EmptyPage(j) /\ j.has_more = 1 /\ j.cursor = replyCursor

\* A cooperative reply response to the request in flight.
CooperativeReplyResponse(j) ==
    j.status_code = 0 /\ (j.has_more = 1 => j.cursor > replyCursor)

\* getAllReplies from the answer of a reply request: the checks, the pushes,
\* hasMore/cursor, the guard, then the next request or the return to the for loop.
ReplyResponse(j) ==
    /\ pc = "reply_fetch" /\ ~waiting
    /\ cooperative' = (cooperative /\ CooperativeReplyResponse(j))
    /\ IF StatusFailed(j) THEN
          ReturnReplies(replies) /\ EndFetch
          /\ UNCHANGED <<delivered, deliveredIds, cursorRepeated>>
       ELSE IF EmptyPage(j) THEN
          ReturnReplies(replies) /\ EndFetch
          /\ UNCHANGED <<delivered, deliveredIds, cursorRepeated>>
       ELSE
          LET rs == PushReplies(replies, j, parentCommentId)
              more == HasMore(j)
          IN /\ delivered' = [delivered EXCEPT ![commentId] = @ + Len(j.comments)]
             /\ deliveredIds' = [deliveredIds EXCEPT ![commentId] =
                   @ \o [i \in 1..Len(j.comments) |-> j.comments[i].cid]]
             /\ cursorRepeated' = IF more /\ j.cursor <= replyCursor
                                  THEN cursorRepeated \cup {commentId}
                                  ELSE cursorRepeated
             /\ IF ReplyCursorStalled(more, j.cursor, j.cursor) THEN
                   ReturnReplies(rs) /\ EndFetch
                ELSE IF more THEN
                   /\ replyReqs < MaxReplyReqs
                   /\ replyHasMore' = more /\ replyCursor' = NextCursor(replyCursor, j)
                   /\ replies' = rs /\ replyJson' = j /\ replyReqs' = replyReqs + 1
                   /\ replyStuck' = (replyStuck /\ StuckReplyResponse(j))
                   /\ itemId' = id
                   /\ pc' = IF NotInitialized THEN "thrown" ELSE "reply_fetch"
                   /\ AnsweredThenStartFetch
                   /\ UNCHANGED <<allComments, idx, commentId, parentCommentId>>
                ELSE
                   ReturnReplies(rs) /\ EndFetch
    /\ UNCHANGED <<viaScrape, browser, page, cursor, hasMore, pageCount, seenCommentIds,
                   json, result, stopReason, firstOrder, firstRecord, topStuck,
                   lifeVars, id, metaVars, frameVars>>

\* The responses SpecCoop follows: top-level records without reply markers, reply
\* records of two ids, so that the order of the replies shows.
CoopRawCommentData == [cid : Cids, reply_comment_total : Totals, reply_id : {"0"}]
CoopCommentListResponse ==
    [comments : SeqsUpTo(CoopRawCommentData, MaxPageLen), has_more : {0, 1},
     cursor : Cursors, status_code : StatusCodes, share_info : {NoShare}]
CoopReplyCids == {"r", "s"}
CoopRawReplyData == [cid : CoopReplyCids, reply_comment_total : {0}, reply_id : {"0"}]
CoopReplyListResponse ==
    [comments : SeqsUpTo(CoopRawReplyData, MaxReplyLen), has_more : {0, 1},
     cursor : Cursors, status_code : StatusCodes]

\* A finally block that runs only when the try block returned.
closeBrowserOnReturnOnly ==
    /\ pc \in {"done", "thrown"} /\ viaScrape
    /\ IF browser /\ pc = "done"
       THEN /\ browser' = FALSE /\ context' = FALSE /\ page' = FALSE
            /\ openBrowsers' = openBrowsers - 1
       ELSE UNCHANGED <<browser, context, page, openBrowsers>>
    /\ scrapeEnd' = IF pc = "done" THEN "returned" ELSE "thrown"
    /\ pc' = "ended"
    /\ UNCHANGED <<viaScrape, scrapes, launched, id, itemId, metaVars, walkVars, replyVars,
                   fetchVars, result, stopReason, histVars, frameVars>>

\* scrape: finally { await this.closeBrowser() }, then the call returns the
\* Comments or rethrows.  closeBrowser: if (this.browser) close it and null the
\* three fields.
closeBrowser ==
    /\ pc \in {"done", "thrown"} /\ viaScrape
    /\ IF browser
       THEN /\ browser' = FALSE /\ context' = FALSE /\ page' = FALSE
            /\ openBrowsers' = openBrowsers - 1
       ELSE UNCHANGED <<browser, context, page, openBrowsers>>
    /\ scrapeEnd' = IF pc = "done" THEN "returned" ELSE "thrown"
    /\ pc' = "ended"
    /\ UNCHANGED <<viaScrape, scrapes, launched, id, itemId, metaVars, walkVars, replyVars,
                   fetchVars, result, stopReason, histVars, frameVars>>

\* parseComment throws on the record the for loop has reached (a record without
\* user: data.user.unique_id is a TypeError); the error leaves getAllComments.
parseCommentThrows ==
    /\ pc = "top_loop" /\ ~LoopDone
    /\ ~IsDuplicate(seenCommentIds, json.comments[idx].cid)
    /\ json.comments[idx].reply_comment_total = 0
    /\ seenCommentIds' = seenCommentIds \cup {json.comments[idx].cid}
    /\ cooperative' = FALSE /\ topStuck' = FALSE
    /\ pc' = "thrown"
    /\ UNCHANGED <<viaScrape, browser, page, allComments, cursor, hasMore, pageCount, json,
                   idx, replyVars, fetchVars, result, stopReason, firstOrder, firstRecord,
                   delivered, deliveredIds, replyReqs, cursorRepeated, replyStuck,
                   lifeVars, id, itemId, metaVars, frameVars>>

Next ==
    \/ scrape(1)
    \/ initBrowser
    \/ newContext
    \/ newPage
    \/ gotoBaseUrl
    \/ initBrowserThrows
    \/ getAllComments
    \/ FetchThrows
    \/ RetryAfterDelay
    \/ TopFetchExhausted
    \/ ReplyFetchExhausted
    \/ \E j \in CommentListResponse : TopResponse(j)
    \/ ForIteration
    \/ EndOfPage
    \/ \E j \in ReplyListResponse : ReplyResponse(j)
    \/ closeBrowser

Spec == Init /\ [][Next]_vars

\* The same walk against the responses of CoopCommentListResponse and
\* CoopReplyListResponse.
NextCoop ==
    \/ scrape(1)
    \/ initBrowser
    \/ newContext
    \/ newPage
    \/ gotoBaseUrl
    \/ initBrowserThrows
    \/ getAllComments
    \/ FetchThrows
    \/ RetryAfterDelay
    \/ TopFetchExhausted
    \/ ReplyFetchExhausted
    \/ \E j \in CoopCommentListResponse : TopResponse(j)
    \/ ForIteration
    \/ EndOfPage
    \/ \E j \in CoopReplyListResponse : ReplyResponse(j)
    \/ closeBrowser

SpecCoop == Init /\ [][NextCoop]_vars

\* The responses SpecScrapes follows: pages of at most one record, whose first
\* comment may carry share metadata.
MetaRawCommentData == [cid : Cids, reply_comment_total : Totals, reply_id : {"0"}]
MetaCommentListResponse ==
    [comments : SeqsUpTo(MetaRawCommentData, 1), has_more : {0, 1},
     cursor : Cursors, status_code : StatusCodes, share_info : {NoShare} \cup ShareInfo]

\* MaxScrapes scrape calls, one after the other, on one instance.
NextScrapes ==
    \/ scrape(MaxScrapes)
    \/ initBrowser
    \/ newContext
    \/ newPage
    \/ gotoBaseUrl
    \/ initBrowserThrows
    \/ getAllComments
    \/ FetchThrows
    \/ RetryAfterDelay
    \/ TopFetchExhausted
    \/ ReplyFetchExhausted
    \/ \E j \in MetaCommentListResponse : TopResponse(j)
    \/ ForIteration
    \/ EndOfPage
    \/ \E j \in ReplyListResponse : ReplyResponse(j)
    \/ parseCommentThrows
    \/ closeBrowser

SpecScrapes == Init /\ [][NextScrapes]_vars

\* A second scrape("v2") call on the same instance, overlapping the first.  It
\* runs the same code; of its steps the model keeps those that touch the
\* fields of the instance: browser, context, page and id.
\* What the steps of the second call leave alone.
firstCallVars == <<pc, viaScrape, scrapes, scrapeEnd, launched, itemId, metaVars, walkVars,
                   replyVars, fetchVars, result, stopReason, histVars, authVars, sideVars>>

\* The second call enters scrape and initBrowser: if (this.browser) return.
otherScrape ==
    /\ other = "idle"
    /\ other' = IF browser THEN "ready" ELSE "launch"
    /\ UNCHANGED <<browser, context, page, openBrowsers, id, firstCallVars>>

\* The second call's initBrowser: this.browser = await chromium.launch(...)
otherInitBrowser ==
    /\ other = "launch"
    /\ browser' = TRUE /\ openBrowsers' = openBrowsers + 1 /\ other' = "newPage"
    /\ UNCHANGED <<context, page, id, firstCallVars>>

\* The second call's initBrowser: this.context = ..., this.page = ..., goto.
otherNewPage ==
    /\ other = "newPage"
    /\ context' = TRUE /\ page' = TRUE /\ other' = "ready"
    /\ UNCHANGED <<browser, openBrowsers, id, firstCallVars>>

\* The second call's getAllComments("v2"): this.id = id, then its walk.
otherGetAllComments ==
    /\ other = "ready"
    /\ id' = "v2" /\ other' = "walk"
    /\ UNCHANGED <<browser, context, page, openBrowsers, firstCallVars>>

\* The second call's walk has returned or thrown: finally closeBrowser.
otherCloseBrowser ==
    /\ other = "walk"
    /\ IF browser
       THEN /\ browser' = FALSE /\ context' = FALSE /\ page' = FALSE
            /\ openBrowsers' = openBrowsers - 1
       ELSE UNCHANGED <<browser, context, page, openBrowsers>>
    /\ other' = "ended"
    /\ UNCHANGED <<id, firstCallVars>>

\* The responses SpecOverlap follows: pages of at most one record.
SmallCommentListResponse ==
    [comments : SeqsUpTo(MetaRawCommentData, 1), has_more : {0, 1},
     cursor : Cursors, status_code : StatusCodes, share_info : {NoShare}]

\* The responses SpecDepth follows: reply records that report replies of their
\* own, one of them with an id the top-level list also holds.
DeepRawReplyData == [cid : {"r", "b"}, reply_comment_total : Totals, reply_id : {"0"}]
DeepReplyListResponse ==
    [comments : SeqsUpTo(DeepRawReplyData, MaxReplyLen), has_more : {0, 1},
     cursor : Cursors, status_code : {0}]

\* The walk against reply records that report replies of their own.
NextDepth ==
    \/ scrape(1)
    \/ initBrowser
    \/ newContext
    \/ newPage
    \/ gotoBaseUrl
    \/ initBrowserThrows
    \/ getAllComments
    \/ FetchThrows
    \/ RetryAfterDelay
    \/ TopFetchExhausted
    \/ ReplyFetchExhausted
    \/ \E j \in SmallCommentListResponse : TopResponse(j)
    \/ ForIteration
    \/ EndOfPage
    \/ \E j \in DeepReplyListResponse : ReplyResponse(j)
    \/ closeBrowser

SpecDepth == Init /\ [][NextDepth]_vars

\* Two scrape calls on one instance that overlap in time.
NextOverlap ==
    \/ scrape(1)
    \/ initBrowser
    \/ newContext
    \/ newPage
    \/ gotoBaseUrl
    \/ initBrowserThrows
    \/ getAllComments
    \/ FetchThrows
    \/ RetryAfterDelay
    \/ TopFetchExhausted
    \/ ReplyFetchExhausted
    \/ \E j \in SmallCommentListResponse : TopResponse(j)
    \/ ForIteration
    \/ EndOfPage
    \/ \E j \in ReplyListResponse : ReplyResponse(j)
    \/ closeBrowser
    \/ otherScrape
    \/ otherInitBrowser
    \/ otherNewPage
    \/ otherGetAllComments
    \/ otherCloseBrowser

SpecOverlap == Init /\ [][NextOverlap]_vars

----------------------------------------------------------------------------
\* InstagramComment.scrape and FacebookComment.scrape.  The two methods differ
\* in their selectors and texts only.

\* Bounds: iterations of the scroll loop and comments parseComments returns.
MaxScrollSteps == 2
MaxParsed == 2
MaxDictLen == 1
MaxGuardCursorStep == 2
MaxFeeds == 4

Platforms == {"instagram", "facebook"}
SavedSessions == {"none", "expired", "valid"}
PostUrl == "url"
PageCaptions == {"", "caption"}

DefaultCaption(p) == IF p = "instagram" THEN "Instagram Post" ELSE "Facebook Video"
WallMessage(p) ==
    IF p = "instagram"
    THEN "Instagram requires authentication to view comments. Please log in using /api/session/login?platform=instagram"
    ELSE "Facebook requires authentication to view comments. Please log in using /api/session/login?platform=facebook"
NoCommentsMessage(p) ==
    IF p = "instagram"
    THEN "No comments found. Instagram may require authentication. Try logging in via /api/session/login?platform=instagram"
    ELSE "No comments found. Facebook may require authentication. Try logging in via /api/session/login?platform=facebook"

\* new Comments(caption, video_url, comments, 0, needs_auth, auth_message)
AuthComments(cap, url, cs, needsAuth, msg) ==
    [caption |-> cap, video_url |-> url, comments |-> cs, has_more |-> 0,
     needs_auth |-> needsAuth, auth_message |-> msg]

\* caption || "Instagram Post", title || "Facebook Video"
CaptionOr(cap, p) == IF cap = "" THEN DefaultCaption(p) ELSE cap

\* A login wall that is never taken for one.
LoginWallBlocksNever(wall, session) == FALSE

\* if (loginWall && !this.hasSession)
LoginWallBlocks(wall, session) == wall /\ ~session

\* The fallback applied whether or not a session was used.
NoCommentsNeedsAuthAnySession(cs, session) == Len(cs) = 0

\* if (comments.length === 0 && !this.hasSession)
NoCommentsNeedsAuth(cs, session) == Len(cs) = 0 /\ ~session

\* SessionManager.loadSession: false when the file does not exist or is
\* expired; with a valid file true, or false when reading it or addCookies throws.
LoadSession(ss) == IF ss = "valid" THEN {TRUE, FALSE} ELSE {FALSE}

\* closeBrowser of the two classes: if (this.browser) close it, null the fields.
authCloseBrowser ==
    IF aBrowser
    THEN /\ aBrowser' = FALSE /\ aContext' = FALSE /\ aPage' = FALSE
         /\ aOpen' = aOpen - 1
    ELSE UNCHANGED <<aBrowser, aContext, aPage, aOpen>>

\* scrape up to the await in initBrowser: if (this.browser) return, and then
\* if (!this.page) throw; else createAuthenticatedContext is awaited.
authScrape ==
    /\ aPc = "idle"
    /\ aPc' = IF ~aBrowser THEN "createContext" ELSE IF aPage THEN "goto" ELSE "finally"
    /\ aThrown' = (aBrowser /\ ~aPage)
    /\ UNCHANGED <<platform, savedSession, aBrowser, aContext, aPage, hasSession, aOpen,
                   navigations, loginWall, scrolls, parseCalls, aComments, aResult, aEnd,
                   tikTokVars, sideVars>>

\* initBrowser: createAuthenticatedContext resolves (launch, newContext,
\* loadSession) and its result is stored.
createAuthenticatedContext ==
    /\ aPc = "createContext"
    /\ aBrowser' = TRUE /\ aContext' = TRUE /\ aOpen' = aOpen + 1
    /\ hasSession' \in LoadSession(savedSession)
    /\ aPc' = "newPage"
    /\ UNCHANGED <<platform, savedSession, aPage, navigations, loginWall, scrolls,
                   parseCalls, aComments, aThrown, aResult, aEnd, tikTokVars, sideVars>>

\* createAuthenticatedContext rejects: chromium.launch failed, or newContext
\* failed after the launch, and then the launched browser is referenced nowhere.
createAuthenticatedContextThrows ==
    /\ aPc = "createContext"
    /\ \E afterLaunch \in BOOLEAN : aOpen' = aOpen + (IF afterLaunch THEN 1 ELSE 0)
    /\ aThrown' = TRUE /\ aPc' = "finally"
    /\ UNCHANGED <<platform, savedSession, aBrowser, aContext, aPage, hasSession,
                   navigations, loginWall, scrolls, parseCalls, aComments, aResult, aEnd,
                   tikTokVars, sideVars>>

\* initBrowser: this.page = await this.context.newPage(); back in scrape,
\* if (!this.page) throw.
authNewPage ==
    /\ aPc = "newPage"
    /\ aPage' = TRUE /\ aPc' = "goto"
    /\ UNCHANGED <<platform, savedSession, aBrowser, aContext, hasSession, aOpen,
                   navigations, loginWall, scrolls, parseCalls, aComments, aThrown,
                   aResult, aEnd, tikTokVars, sideVars>>

\* await this.page.goto(url), waitForTimeout(3000)
authGoto ==
    /\ aPc = "goto"
    /\ navigations' = navigations + 1 /\ aPc' = "wall"
    /\ UNCHANGED <<platform, savedSession, aBrowser, aContext, aPage, hasSession, aOpen,
                   loginWall, scrolls, parseCalls, aComments, aThrown, aResult, aEnd,
                   tikTokVars, sideVars>>

\* The login-wall check: loginWall = await this.page.$(...); with a wall and no
\* session closeBrowser and return the Comments that asks for a login, else go
\* on past the modals (each in its own try/catch) to scrollToLoadComments.
checkLoginWall(wall) ==
    /\ aPc = "wall"
    /\ loginWall' = wall
    /\ IF LoginWallBlocks(wall, hasSession)
       THEN /\ authCloseBrowser
            /\ aResult' = AuthComments(DefaultCaption(platform), PostUrl, <<>>, TRUE,
                                        WallMessage(platform))
            /\ aPc' = "finally"
       ELSE /\ aPc' = "scroll"
            /\ UNCHANGED <<aBrowser, aContext, aPage, aOpen, aResult>>
    /\ UNCHANGED <<platform, savedSession, hasSession, navigations, scrolls, parseCalls,
                   aComments, aThrown, aEnd, tikTokVars, sideVars>>

\* One iteration of the loop of scrollToLoadComments; more = the loop goes on
\* (new content was loaded and maxScrolls is not reached).
scrollToLoadComments(more) ==
    /\ aPc = "scroll"
    /\ scrolls' = scrolls + 1
    /\ aPc' = IF more /\ scrolls + 1 < MaxScrollSteps THEN "scroll" ELSE "parse"
    /\ UNCHANGED <<platform, savedSession, aBrowser, aContext, aPage, hasSession, aOpen,
                   navigations, loginWall, parseCalls, aComments, aThrown, aResult, aEnd,
                   tikTokVars, sideVars>>

\* parseComments: the list of what the page held, or of what was built before
\* an error was caught.
parseComments(n) ==
    /\ aPc = "parse"
    /\ aComments' = [k \in 1..n |-> k] /\ parseCalls' = parseCalls + 1
    /\ aPc' = "caption"
    /\ UNCHANGED <<platform, savedSession, aBrowser, aContext, aPage, hasSession, aOpen,
                   navigations, loginWall, scrolls, aThrown, aResult, aEnd, tikTokVars, sideVars>>

\* The caption (or title) is read, "" when that fails, and the return
\* statement builds the Comments.
returnComments(cap) ==
    /\ aPc = "caption"
    /\ aResult' =
          IF NoCommentsNeedsAuth(aComments, hasSession)
          THEN AuthComments(CaptionOr(cap, platform), PostUrl, <<>>, TRUE,
                            NoCommentsMessage(platform))
          ELSE AuthComments(CaptionOr(cap, platform), PostUrl, aComments, FALSE, "")
    /\ aPc' = "finally"
    /\ UNCHANGED <<platform, savedSession, aBrowser, aContext, aPage, hasSession, aOpen,
                   navigations, loginWall, scrolls, parseCalls, aComments, aThrown, aEnd,
                   tikTokVars, sideVars>>

\* An await of scrape outside every try/catch rejects: newPage, goto, the
\* login-wall query, an evaluate of the scroll loop.
authThrows ==
    /\ aPc \in {"newPage", "goto", "wall", "scroll"}
    /\ aThrown' = TRUE /\ aPc' = "finally"
    /\ UNCHANGED <<platform, savedSession, aBrowser, aContext, aPage, hasSession, aOpen,
                   navigations, loginWall, scrolls, parseCalls, aComments, aResult, aEnd,
                   tikTokVars, sideVars>>

\* finally { await this.closeBrowser() }, then scrape returns or rethrows.
authFinally ==
    /\ aPc = "finally"
    /\ authCloseBrowser
    /\ aEnd' = IF aThrown THEN "thrown" ELSE "returned"
    /\ aPc' = "ended"
    /\ UNCHANGED <<platform, savedSession, hasSession, navigations, loginWall, scrolls,
                   parseCalls, aComments, aThrown, aResult, tikTokVars, sideVars>>

InitAuthScrape ==
    /\ InitTikTok /\ InitCodec(EmptyComments) /\ InitRest
    /\ \E p \in Platforms : \E ss \in SavedSessions : InitAuth(p, ss)

NextAuth ==
    \/ authScrape
    \/ createAuthenticatedContext
    \/ createAuthenticatedContextThrows
    \/ authNewPage
    \/ authGoto
    \/ \E wall \in BOOLEAN : checkLoginWall(wall)
    \/ \E more \in BOOLEAN : scrollToLoadComments(more)
    \/ \E n \in 0..MaxParsed : parseComments(n)
    \/ \E cap \in PageCaptions : returnComments(cap)
    \/ authThrows
    \/ authFinally

SpecAuth == InitAuthScrape /\ [][NextAuth]_vars

----------------------------------------------------------------------------
\* Comments.dict and its JSON encoding and decoding
\* (src/src/types/comments.ts, src/src/types/comment.ts).

\* The members holding arrays of objects; every other member holds a primitive.
ArrayKeys == {"comments", "replies"}

\* The replies the scrapers build: parseComment passes the parent's id or, from
\* a record without one, undefined; a reply holds no replies of its own.
ReplyObjects ==
    [comment_id : {"'r'"}, username : {"'u'"}, nickname : {"'n'"}, comment : {"'c'"},
     create_time : {"'2024-01-01T00:00:00'"}, avatar : {"''"}, total_reply : {"0"},
     replies : {<<>>}, parent_comment_id : {JsUndefined, "'a'"},
     is_orphan_reply : {"false", "true"}]

\* The top-level comments: parent_comment_id undefined, total_reply the
\* reply_comment_total of the record, a number or missing.
CommentObjects ==
    [comment_id : {"'a'"}, username : {"'u'"}, nickname : {"'n'"}, comment : {"'c'"},
     create_time : {"'2024-01-01T00:00:00'"}, avatar : {"''"},
     total_reply : {"1", JsUndefined}, replies : SeqsUpTo(ReplyObjects, MaxDictLen),
     parent_comment_id : {JsUndefined}, is_orphan_reply : {"false"}]

\* The Comments values: the arguments of the constructor of Comments.
CommentsObjects ==
    [caption : {"'t'"}, video_url : {"'u'"},
     comments : SeqsUpTo(CommentObjects, MaxDictLen), has_more : {"0", "1"},
     needs_auth : {"false", "true"}, auth_message : {"''", "'m'"}]

\* v || undefined: a falsy v gives undefined.
OrUndefined(v) ==
    IF v \in {"false", "''", "0", JsNull, JsUndefined, JsNaN} THEN JsUndefined ELSE v

\* Comment.dict
RECURSIVE CommentDict(_)
CommentDict(c) ==
    [comment_id |-> c.comment_id, username |-> c.username, nickname |-> c.nickname,
     comment |-> c.comment, create_time |-> c.create_time, avatar |-> c.avatar,
     total_reply |-> c.total_reply,
     replies |-> [i \in DOMAIN c.replies |-> CommentDict(c.replies[i])],
     parent_comment_id |-> c.parent_comment_id,
     is_orphan_reply |-> c.is_orphan_reply]

\* Comments.dict
CommentsDict(o) ==
    [caption |-> o.caption, video_url |-> o.video_url,
     comments |-> [i \in DOMAIN o.comments |-> CommentDict(o.comments[i])],
     has_more |-> o.has_more, needs_auth |-> OrUndefined(o.needs_auth),
     auth_message |-> OrUndefined(o.auth_message)]

\* JSON.stringify of a primitive: NaN is written null, the rest as it is.
JsonLiteral(v) == IF v = JsNaN THEN JsNull ELSE v

\* A JSON.stringify that writes an undefined member as null, as JSON.stringify
\* does for an undefined element of an array.
RECURSIVE JSONstringifyUndefinedAsNull(_)
JSONstringifyUndefinedAsNull(o) ==
    [k \in DOMAIN o |->
        IF k \in ArrayKeys
        THEN [i \in DOMAIN o[k] |-> JSONstringifyUndefinedAsNull(o[k][i])]
        ELSE IF o[k] = JsUndefined THEN JsNull ELSE JsonLiteral(o[k])]

\* JSON.stringify of an object: a member whose value is undefined is left out
\* of the text; an array is written element by element.
RECURSIVE JSONstringify(_)
JSONstringify(o) ==
    [k \in {m \in DOMAIN o : m \in ArrayKeys \/ o[m] # JsUndefined} |->
        IF k \in ArrayKeys
        THEN [i \in DOMAIN o[k] |-> JSONstringify(o[k][i])]
        ELSE JsonLiteral(o[k])]

\* JSON.parse (response.json()): an object with the members the text holds.
RECURSIVE JSONparse(_)
JSONparse(t) ==
    [k \in DOMAIN t |->
        IF k \in ArrayKeys
        THEN [i \in DOMAIN t[k] |-> JSONparse(t[k][i])]
        ELSE t[k]]

\* o[k] in JavaScript: reading a member the object does not have gives undefined.
Get(o, k) == IF k \in DOMAIN o THEN o[k] ELSE JsUndefined

\* get dict()
dict ==
    /\ cPc = "object"
    /\ cDict' = CommentsDict(cObject) /\ cPc' = "dict"
    /\ UNCHANGED <<cObject, cJson, cDecoded, codecFrame>>

\* Response.json(result.dict) / JSON.stringify(this.dict)
stringify ==
    /\ cPc = "dict"
    /\ cJson' = JSONstringify(cDict) /\ cPc' = "json"
    /\ UNCHANGED <<cObject, cDict, cDecoded, codecFrame>>

\* await response.json()
parse ==
    /\ cPc = "json"
    /\ cDecoded' = JSONparse(cJson) /\ cPc' = "parsed"
    /\ UNCHANGED <<cObject, cDict, cJson, codecFrame>>

InitJson ==
    /\ InitTikTok /\ InitAuth("instagram", "none") /\ InitRest
    /\ \E o \in CommentsObjects : InitCodec(o)

NextJson ==
    \/ dict
    \/ stringify
    \/ parse

SpecJson == InitJson /\ [][NextJson]_vars

----------------------------------------------------------------------------
\* The interactive login of SessionManager: startLoginSession,
\* completeLoginSession, cancelLoginSession and cleanup, step by step between
\* their awaits.

\* cleanup up to its await: if (this.activeBrowser) the browser is closed and
\* the fields are nulled after the await; otherwise they are nulled at once.
CleanupCloses == activeBrowser # 0
cleanupSync ==
    IF CleanupCloses
    THEN /\ loginOpen' = loginOpen \ {activeBrowser}
         /\ UNCHANGED <<activeBrowser, activeContext, activePage>>
    ELSE /\ activeBrowser' = 0 /\ activeContext' = 0 /\ activePage' = 0
         /\ UNCHANGED loginOpen

\* cleanup after its await: the three fields are set to null.
cleanupNulls == activeBrowser' = 0 /\ activeContext' = 0 /\ activePage' = 0

\* startLoginSession up to its first await: if (this.activeBrowser) return
\* { success: false }; otherwise chromium.launch is called.
startLoginSession(i) ==
    /\ startPc[i] = "idle"
    /\ IF activeBrowser # 0
       THEN /\ startPc' = [startPc EXCEPT ![i] = "ended"]
            /\ startOk' = [startOk EXCEPT ![i] = "false"]
       ELSE /\ startPc' = [startPc EXCEPT ![i] = "launch"]
            /\ UNCHANGED startOk
    /\ UNCHANGED <<activeBrowser, activeContext, activePage, loginOpen, endPc, savedSession,
                   loginFrame>>

\* this.activeBrowser = await chromium.launch(...), and newContext is called on it.
startLaunched(i) ==
    /\ startPc[i] = "launch"
    /\ activeBrowser' = i /\ loginOpen' = loginOpen \cup {i}
    /\ startPc' = [startPc EXCEPT ![i] = "newContext"]
    /\ UNCHANGED <<activeContext, activePage, startOk, endPc, savedSession, loginFrame>>

\* this.activeContext = await this.activeBrowser.newContext(...), and newPage is
\* called on it.
startNewContext(i) ==
    /\ startPc[i] = "newContext"
    /\ activeContext' = i
    /\ startPc' = [startPc EXCEPT ![i] = "newPage"]
    /\ UNCHANGED <<activeBrowser, activePage, loginOpen, startOk, endPc, savedSession,
                   loginFrame>>

\* this.activePage = await this.activeContext.newPage(), and goto is called on it.
startNewPage(i) ==
    /\ startPc[i] = "newPage"
    /\ activePage' = i
    /\ startPc' = [startPc EXCEPT ![i] = "goto"]
    /\ UNCHANGED <<activeBrowser, activeContext, loginOpen, startOk, endPc, savedSession,
                   loginFrame>>

\* goto resolves: return { success: true }.
startReturns(i) ==
    /\ startPc[i] = "goto"
    /\ startPc' = [startPc EXCEPT ![i] = "ended"]
    /\ startOk' = [startOk EXCEPT ![i] = "true"]
    /\ UNCHANGED <<activeBrowser, activeContext, activePage, loginOpen, endPc, savedSession,
                   loginFrame>>

\* One of the awaits rejects: the catch block calls cleanup.
startThrows(i) ==
    /\ startPc[i] \in {"launch", "newContext", "newPage", "goto"}
    /\ cleanupSync
    /\ IF CleanupCloses
       THEN startPc' = [startPc EXCEPT ![i] = "cleanup"] /\ UNCHANGED startOk
       ELSE /\ startPc' = [startPc EXCEPT ![i] = "ended"]
            /\ startOk' = [startOk EXCEPT ![i] = "false"]
    /\ UNCHANGED <<endPc, savedSession, loginFrame>>

\* The cleanup of the catch block after its await, and return { success: false }.
startCleanedUp(i) ==
    /\ startPc[i] = "cleanup"
    /\ cleanupNulls
    /\ startPc' = [startPc EXCEPT ![i] = "ended"]
    /\ startOk' = [startOk EXCEPT ![i] = "false"]
    /\ UNCHANGED <<loginOpen, endPc, savedSession, loginFrame>>

\* cancelLoginSession with a login session active: cleanup up to its await.
cancelLoginSession ==
    /\ endPc = "idle" /\ activeBrowser # 0
    /\ cleanupSync /\ endPc' = "cleanup"
    /\ UNCHANGED <<startPc, startOk, savedSession, loginFrame>>

\* completeLoginSession with the three fields set: waitForSelector is awaited.
completeLoginSession ==
    /\ endPc = "idle"
    /\ activeBrowser # 0 /\ activeContext # 0 /\ activePage # 0
    /\ endPc' = "saveSession"
    /\ UNCHANGED <<activeBrowser, activeContext, activePage, loginOpen, startPc, startOk,
                   savedSession, loginFrame>>

\* saveSession writes the session file of the platform, or throws; cleanup
\* follows in both cases, up to its await.
completeSaved(written) ==
    /\ endPc = "saveSession"
    /\ savedSession' = IF written THEN "valid" ELSE savedSession
    /\ cleanupSync
    /\ endPc' = IF CleanupCloses THEN "cleanup" ELSE "idle"
    /\ UNCHANGED <<startPc, startOk, loginFrame>>

\* The cleanup of completeLoginSession or cancelLoginSession after its await.
endCleanedUp ==
    /\ endPc = "cleanup"
    /\ cleanupNulls /\ endPc' = "idle"
    /\ UNCHANGED <<loginOpen, startPc, startOk, savedSession, loginFrame>>

NextLogin ==
    \/ \E i \in StartCalls :
          \/ startLoginSession(i)
          \/ startLaunched(i)
          \/ startNewContext(i)
          \/ startNewPage(i)
          \/ startReturns(i)
          \/ startThrows(i)
          \/ startCleanedUp(i)
    \/ cancelLoginSession
    \/ completeLoginSession
    \/ \E written \in BOOLEAN : completeSaved(written)
    \/ endCleanedUp

SpecLogin == Init /\ [][NextLogin]_vars

----------------------------------------------------------------------------
\* The three places of SessionManager that decide whether a stored session is
\* usable: hasValidSession, getSessionStatus and loadSession.

\* The session files: none, or a readable file with its timestamp and cookies;
\* cookies = -1 is a file without a cookies member.
SessionFiles ==
    {NoSessionFile} \cup
    [exists : {TRUE}, timestamp : 0..MaxTimestamp, cookies : -1..MaxCookies]
Clock == (SESSION_EXPIRY_MS - 1)..(SESSION_EXPIRY_MS + MaxTimestamp + 1)

Bool(b) == IF b THEN "true" ELSE "false"

\* hasValidSession: no file, now - data.timestamp > SESSION_EXPIRY_MS, or
\* !data.cookies || data.cookies.length === 0 give false.
HasValidSession(f, t) ==
    /\ f.exists
    /\ ~(t - f.timestamp > SESSION_EXPIRY_MS)
    /\ ~(f.cookies = -1 \/ f.cookies = 0)

\* getSessionStatus: Date.now() < data.timestamp + SESSION_EXPIRY_MS &&
\* data.cookies?.length > 0
SessionStatusValid(f, t) ==
    /\ f.exists
    /\ t < f.timestamp + SESSION_EXPIRY_MS
    /\ f.cookies > 0

\* loadSession when addCookies resolves: no file or
\* Date.now() - data.timestamp > SESSION_EXPIRY_MS give false; a file without
\* cookies makes the try block throw, which gives false; otherwise true.
LoadSessionOf(f, t) ==
    /\ f.exists
    /\ ~(t - f.timestamp > SESSION_EXPIRY_MS)
    /\ f.cookies # -1

hasValidSession ==
    /\ hasValid = "none"
    /\ hasValid' = Bool(HasValidSession(sessionFile, now))
    /\ UNCHANGED <<sessionFile, now, statusValid, loaded, validityFrame>>

getSessionStatus ==
    /\ statusValid = "none"
    /\ statusValid' = Bool(SessionStatusValid(sessionFile, now))
    /\ UNCHANGED <<sessionFile, now, hasValid, loaded, validityFrame>>

\* loadSession; addCookies may reject for a reason of its own, and the catch
\* block then returns false.
loadSession(rejected) ==
    /\ loaded = "none"
    /\ loaded' = IF rejected /\ LoadSessionOf(sessionFile, now) THEN "threw"
                 ELSE Bool(LoadSessionOf(sessionFile, now))
    /\ UNCHANGED <<sessionFile, now, hasValid, statusValid, validityFrame>>

InitSessionChecks ==
    /\ InitTikTok /\ InitAuth("instagram", "none") /\ InitCodec(EmptyComments)
    /\ InitGuards /\ InitLogin
    /\ \E f \in SessionFiles : \E t \in Clock : InitValidity(f, t)

NextSessionChecks ==
    \/ hasValidSession
    \/ getSessionStatus
    \/ \E rejected \in BOOLEAN : loadSession(rejected)

SpecSessionChecks == InitSessionChecks /\ [][NextSessionChecks]_vars

----------------------------------------------------------------------------
\* The pagination of getAllComments and of getAllReplies, given the same
\* responses: each a page with status_code 0 and a non-empty list.

GuardCursors == {k * size : k \in 0..MaxGuardCursorStep}
GuardResponse == [cursor : GuardCursors, has_more : {0, 1}]

\* getAllComments from hasMore = json.has_more === 1 to the next test of
\* while (hasMore): the guard breaks before cursor = newCursor.
getAllCommentsPage(st, j) ==
    LET more == HasMore(j)
        newCursor == j.cursor
    IN IF CursorStalled(more, newCursor, st.cursor)
       THEN [st EXCEPT !.hasMore = more, !.looping = FALSE]
       ELSE [cursor |-> newCursor, hasMore |-> more, looping |-> more,
             requests |-> IF more THEN Append(st.requests, newCursor) ELSE st.requests]

\* getAllReplies from hasMore = json.has_more === 1 to the next test of
\* while (hasMore): cursor = json.cursor comes before the guard.
getAllRepliesPage(st, j) ==
    LET more == HasMore(j)
    IN IF ReplyCursorStalled(more, j.cursor, j.cursor)
       THEN [st EXCEPT !.cursor = j.cursor, !.hasMore = more, !.looping = FALSE]
       ELSE [cursor |-> j.cursor, hasMore |-> more, looping |-> more,
             requests |-> IF more THEN Append(st.requests, j.cursor) ELSE st.requests]

\* The same response answers the request of each loop that is still looping.
respond(j) ==
    /\ fed < MaxFeeds /\ (wLoop.looping \/ rLoop.looping)
    /\ wLoop' = IF wLoop.looping THEN getAllCommentsPage(wLoop, j) ELSE wLoop
    /\ rLoop' = IF rLoop.looping THEN getAllRepliesPage(rLoop, j) ELSE rLoop
    /\ fed' = fed + 1
    /\ UNCHANGED guardFrame

NextGuards == \E j \in GuardResponse : respond(j)

SpecGuards == Init /\ [][NextGuards]_vars

----------------------------------------------------------------------------
\* Shorthands of the properties.

CommentIdsOf(cs) == [i \in 1..Len(cs) |-> cs[i].comment_id]
InFetch == pc \in {"top_fetch", "reply_fetch"}
AtPageEnd == pc = "top_loop" /\ idx > Len(json.comments)

\* C1: facing a replies endpoint that answers every request with a non-empty
\* list, has_more = 1 and the cursor of the request, the reply resolver stops
\* within one extra request: it never gets as far as MaxReplyReqs requests.
C1_ReplyResolverStops ==
    (pc = "reply_fetch" /\ replyStuck) => replyReqs < MaxReplyReqs

\* C2: in a walk on an initialized page, facing a comments-list endpoint that answers every request with a
\* non-empty page of comments without replies, has_more = 1 and the cursor of
\* the request, the walker issues at most two list requests, never throws, can
\* always take its next step until it has returned, and returns the comments of
\* the pages it received.
C2_WalkerStopsOnStuckCursor ==
    (viaScrape /\ topStuck /\ pageCount >= 1) =>
        /\ pageCount <= 2
        /\ pc # "thrown" /\ scrapeEnd # "thrown"
        /\ (pc \in {"done", "ended"} \/ ENABLED Next)
        /\ pc = "done" =>
              /\ stopReason = "stalled"
              /\ CommentIdsOf(result.comments) = firstOrder

\* C2 witness: the walk has returned the comments of a page that repeated the cursor.
C2_Witness ==
    topStuck /\ pc = "done" /\ pageCount = 1 /\ Len(result.comments) = 2

\* The Comment built from the first record seen with each id, without its replies.
FirstComment(c) ==
    [comment_id |-> c,
     total_reply |-> firstRecord[c].reply_comment_total,
     parent_comment_id |->
        IF firstRecord[c].reply_id = "0" THEN Undefined ELSE firstRecord[c].reply_id]
Flat(c) ==
    [comment_id |-> c.comment_id, total_reply |-> c.total_reply,
     parent_comment_id |-> c.parent_comment_id]

\* C3: whenever the walker has finished a page, and in the Comments it returns,
\* the top-level list holds exactly one Comment per distinct comment_id of the
\* pages processed so far, in order of first occurrence and built from the
\* first record with that id: a repeated id adds nothing.
C3_OneCommentPerId ==
    (AtPageEnd \/ pc = "top_fetch" \/ pc = "done") =>
        LET cs == IF pc = "done" THEN result.comments ELSE allComments
        IN /\ Len(cs) = Len(firstOrder)
           /\ \A i \in 1..Len(cs) : Flat(cs[i]) = FirstComment(firstOrder[i])
           /\ \A i, k \in 1..Len(cs) : cs[i].comment_id = cs[k].comment_id => i = k

\* C3 witness: the second page held two records, both with the id of the only
\* comment of the first page, and the list still has one Comment.
C3_Witness ==
    /\ AtPageEnd /\ pageCount = 2 /\ Len(json.comments) = 2
    /\ json.comments[1].cid = json.comments[2].cid
    /\ Len(allComments) = 1 /\ allComments[1].comment_id = json.comments[1].cid

\* C4 as claimed: every top-level Comment has at most total_reply replies,
\* whatever the replies endpoint does.  Stated for the comments whose reply
\* cursors advanced, where the resolver's cursor guard plays no part.
C4_RepliesWithinTotal ==
    \A i \in 1..Len(allComments) :
        allComments[i].comment_id \notin cursorRepeated =>
            Len(allComments[i].replies) <= allComments[i].total_reply

\* C4 amended: every top-level Comment holds exactly the records of the reply
\* pages processed for it, and none when total_reply = 0; so replies.length <=
\* total_reply whenever the endpoint delivered at most total_reply records.
C4_RepliesAreDelivered ==
    \A i \in 1..Len(allComments) :
        LET c == allComments[i] IN
        /\ Len(c.replies) = delivered[c.comment_id]
        /\ c.total_reply = 0 => Len(c.replies) = 0
        /\ delivered[c.comment_id] <= c.total_reply => Len(c.replies) <= c.total_reply

\* C4 witness: a returned comment with total_reply = 1 and its one reply.
C4_Witness ==
    /\ pc = "done"
    /\ \E i \in 1..Len(result.comments) :
          result.comments[i].total_reply = 1 /\ Len(result.comments[i].replies) = 1

\* C5: within one call of fetchWithRetry the waits before the 1st, 2nd and 3rd
\* retry are 1000, 2000 and 4000 ms, and at most 3 retries (4 attempts) are made.
C5_BackoffDelays ==
    /\ Len(delays) <= 3 /\ retryCount <= 3
    /\ \A k \in 1..Len(delays) : delays[k] = <<1000, 2000, 4000>>[k]
    /\ InFetch => Len(delays) = retryCount + (IF waiting THEN 1 ELSE 0)

\* C5 witness: the fourth attempt of a call is in flight after the three waits.
C5_Witness ==
    InFetch /\ ~waiting /\ retryCount = 3 /\ delays = <<1000, 2000, 4000>>

TopListEnds ==
    /\ pc' = "done"
    /\ result' = [caption |-> caption, video_url |-> videoUrl,
                  comments |-> allComments, has_more |-> 0]
    /\ json' = NoJson /\ idx' = 0
    /\ retryCount' = 0 /\ ~waiting' /\ delays' = <<>>
    /\ UNCHANGED <<browser, page, allComments, cursor, hasMore, pageCount,
                   seenCommentIds, replyVars>>

\* ... and the reply loop breaks: getAllReplies returns the replies accumulated
\* so far, the for loop pushes the parent with them and goes on to the next record.
ReplyListEnds ==
    /\ pc' = "top_loop" /\ idx' = idx + 1
    /\ Len(allComments') = Len(allComments) + 1
    /\ SubSeq(allComments', 1, Len(allComments)) = allComments
    /\ allComments'[Len(allComments')].comment_id = json.comments[idx].cid
    /\ allComments'[Len(allComments')].replies = replies
    /\ replyReqs' = 0 /\ replies' = <<>> /\ replyJson' = NoReplyJson
    /\ replyCursor' = 0 /\ replyHasMore' = TRUE
    /\ commentId' = Undefined /\ parentCommentId' = Undefined
    /\ retryCount' = 0 /\ ~waiting' /\ delays' = <<>>
    /\ UNCHANGED <<browser, page, cursor, hasMore, pageCount, seenCommentIds, json, result>>

\* C7: when fetchWithRetry gives up on top-level page k, getAllComments returns,
\* without throwing, the comments accumulated from pages 1..k-1 (one per id of
\* those pages); when it gives up on a reply page, the parent is pushed with the
\* replies accumulated so far and the for loop goes on with the next record.
C7_NullEndsOnlyItsList ==
    [][/\ TopFetchExhausted =>
            /\ pc' = "done" /\ result'.comments = allComments
            /\ CommentIdsOf(result'.comments) = firstOrder
            /\ pageCount' = pageCount
       /\ ReplyFetchExhausted =>
            /\ pc' = "top_loop" /\ idx' = idx + 1
            /\ allComments' = Append(allComments,
                  [comment_id |-> commentId,
                   total_reply |-> json.comments[idx].reply_comment_total,
                   replies |-> replies,
                   parent_comment_id |-> FirstComment(commentId).parent_comment_id])
            /\ UNCHANGED <<cursor, hasMore, pageCount, seenCommentIds, json>>]_vars

\* C7 witness: the walk returned the comment of page 1 after the fetch of page 2
\* gave up.
C7_Witness ==
    pc = "done" /\ stopReason = "null" /\ pageCount = 2 /\ Len(result.comments) >= 1

\* Responses with a non-zero status_code that carry records.
FailedTopResponses == {j \in CommentListResponse : j.status_code # 0 /\ j.comments # <<>>}
FailedReplyResponses == {j \in ReplyListResponse : j.status_code # 0 /\ j.comments # <<>>}

\* C8: a response with a non-zero status_code leaves the walker in the state a
\* null payload leaves it in: its records are not added, its list is not
\* requested again, and every program variable has the value the null gives it.
C8_StatusCodeAsNull ==
    [][/\ (pc = "top_fetch" /\ ~waiting
             /\ \E j \in FailedTopResponses : TopResponse(j)) => TopListEnds
       /\ (pc = "reply_fetch" /\ ~waiting
             /\ \E j \in FailedReplyResponses : ReplyResponse(j)) => ReplyListEnds
       /\ TopFetchExhausted => TopListEnds
       /\ ReplyFetchExhausted => ReplyListEnds]_vars

\* C8 witness: the walk returned the comment of page 1 after page 2 came with a
\* non-zero status_code.
C8_Witness ==
    pc = "done" /\ stopReason = "status" /\ pageCount = 2 /\ Len(result.comments) >= 1

\* C9: every Comments returned by getAllComments has has_more = 0.
C9_HasMoreZero == pc = "done" => result.has_more = 0

\* C9 witness: the walk returned after a response with has_more = 1 whose cursor
\* did not advance.
C9_Witness == pc = "done" /\ stopReason = "stalled" /\ hasMore

\* C10: every reply, in the list being resolved and under every top-level
\* Comment, has the parent_comment_id of the top-level comment it was fetched for.
C10_RepliesTaggedWithParent ==
    /\ \A k \in 1..Len(replies) : replies[k].parent_comment_id = commentId
    /\ \A i \in 1..Len(allComments) : \A k \in 1..Len(allComments[i].replies) :
          allComments[i].replies[k].parent_comment_id = allComments[i].comment_id
    /\ pc = "done" =>
          \A i \in 1..Len(result.comments) : \A k \in 1..Len(result.comments[i].replies) :
             result.comments[i].replies[k].parent_comment_id = result.comments[i].comment_id

\* C10 witness: a reply fetched for comment "a" whose record names "b" in reply_id.
C10_Witness ==
    /\ pc = "reply_fetch" /\ commentId = "a" /\ Len(replies) = 1
    /\ replyJson.comments = <<[cid |-> "r", reply_comment_total |-> 0, reply_id |-> "b"]>>
    /\ replies[1].comment_id = "r" /\ replies[1].parent_comment_id = "a"

\* The Comments a cooperative source leads to, for the id at place i of the
\* received pages: the record's fields, and as replies the records of its reply
\* pages in the order received, each tagged with the comment's id.
ExpectedComment(c) ==
    [comment_id |-> c,
     total_reply |-> firstRecord[c].reply_comment_total,
     parent_comment_id |-> Undefined,
     replies |-> [k \in 1..Len(deliveredIds[c]) |->
                    [comment_id |-> deliveredIds[c][k], total_reply |-> 0,
                     replies |-> <<>>, parent_comment_id |-> c]]]

\* C11: while the source has been cooperative (no attempt threw, status codes
\* 0, cursors strictly advancing, no id repeated), at every page end and in the
\* returned Comments the top-level list is the concatenation of the received
\* pages in retrieval order, and every comment carries the concatenation of its
\* reply pages in retrieval order (none when total_reply = 0), each reply
\* tagged with the comment's id.
C11_CooperativeConcatenation ==
    (cooperative /\ (AtPageEnd \/ pc \in {"top_fetch", "done", "ended"}) /\ pageCount >= 1) =>
        LET cs == IF pc \in {"done", "ended"} THEN result.comments ELSE allComments
        IN /\ CommentIdsOf(cs) = firstOrder
           /\ \A i \in 1..Len(cs) : cs[i] = ExpectedComment(firstOrder[i])
           /\ \A i \in 1..Len(cs) : cs[i].total_reply = 0 => cs[i].replies = <<>>

\* C11 witness, the end-to-end scenario: page 1 held two comments, one of them
\* with total_reply = 1, page 2 was empty, the replies endpoint returned one
\* reply for the flagged comment; the result has 2 comments, the flagged one
\* has exactly 1 reply, tagged with the flagged comment's id.
C11_Witness ==
    /\ cooperative /\ pc = "done" /\ stopReason = "empty" /\ pageCount = 2
    /\ Len(result.comments) = 2
    /\ result.comments[1].total_reply = 1 /\ result.comments[2].total_reply = 0
    /\ Len(result.comments[1].replies) = 1
    /\ result.comments[1].replies[1].parent_comment_id = result.comments[1].comment_id
    /\ result.comments[2].replies = <<>>

\* C12 as claimed: no element of the top-level list of the returned Comments was
\* built from a record that came in the top-level stream with a reply marker
\* (reply_id present and different from "0").
C12_MarkedRecordsNotTopLevel ==
    pc \in {"done", "ended"} =>
        \A i \in 1..Len(result.comments) :
            /\ firstRecord[result.comments[i].comment_id].reply_id = "0"
            /\ result.comments[i].parent_comment_id = Undefined

\* C13 as claimed: once a page's share metadata has been taken, caption and
\* video_url stay what that page gave, also when its title is the empty string,
\* during the walk and in the Comments it returns.
C13_CapturedOnce ==
    firstShare # NoShare =>
        /\ caption = firstShare.title /\ videoUrl = firstShare.url
        /\ pc = "done" =>
              (result.caption = firstShare.title /\ result.video_url = firstShare.url)

\* C14: at most one request is outstanding, and exactly one while an attempt of
\* fetchWithRetry is in flight.  While a reply request for c is in flight, the
\* page in hand holds c at the place the for loop has reached, and every
\* comment before c in the received pages has been pushed with its replies, its
\* reply pagination over.  While a top-level request is in flight no reply
\* pagination is in progress and every comment of the received pages has been
\* pushed.
C14_RequestsInOrder ==
    /\ outstanding <= 1
    /\ outstanding = (IF InFetch /\ ~waiting THEN 1 ELSE 0)
    /\ Len(allComments) <= Len(firstOrder)
    /\ CommentIdsOf(allComments) = SubSeq(firstOrder, 1, Len(allComments))
    /\ pc = "reply_fetch" =>
          /\ idx \in 1..Len(json.comments) /\ json.comments[idx].cid = commentId
          /\ Len(allComments) < Len(firstOrder)
          /\ firstOrder[Len(allComments) + 1] = commentId
          /\ itemId # ""
    /\ pc = "top_fetch" =>
          /\ commentId = Undefined /\ replies = <<>> /\ replyReqs = 0 /\ itemId = ""
          /\ Len(allComments) = Len(firstOrder)

\* C14 witness: the reply request for the second comment of a page is in
\* flight after the reply pagination of the first one has delivered a reply.
C14_Witness ==
    /\ pc = "reply_fetch" /\ ~waiting /\ outstanding = 1 /\ idx = 2
    /\ Len(allComments) = 1 /\ Len(allComments[1].replies) = 1
    /\ commentId = json.comments[2].cid

\* The positions of a scrape call after initBrowser's launch and before its
\* finally block has run.
AfterLaunch ==
    pc \in {"newContext", "newPage", "goto", "ready", "top_fetch", "top_loop",
            "reply_fetch", "done"}

\* C15: once a scrape call has finished, by returning or by throwing, the
\* browser it launched is closed, no browser is left open, and browser, context
\* and page are null; every scrape call on the instance, the later ones too,
\* goes through chromium.launch and works on the browser it launched itself.
C15_BrowserClosedOnEveryExit ==
    /\ scrapeEnd # "none" <=> pc = "ended"
    /\ pc = "ended" => (~browser /\ ~context /\ ~page /\ openBrowsers = 0)
    /\ (viaScrape /\ pc = "ready") => (browser /\ context /\ page)
    /\ (viaScrape /\ AfterLaunch) => (launched /\ browser /\ openBrowsers = 1)
    /\ pc = "launch" => (~browser /\ ~launched /\ openBrowsers = 0)
    /\ openBrowsers <= 1

\* C15 witness: the second scrape call on the instance has launched its browser
\* after the first call returned its Comments.
C15_Witness ==
    /\ scrapes = 2 /\ pc = "ready" /\ launched /\ browser /\ openBrowsers = 1
    /\ result.has_more = 0 /\ Len(result.comments) >= 1

\* A scrape call ended by a throw inside getAllComments, its browser closed.
EndedByWalkThrow ==
    pc = "ended" /\ scrapeEnd = "thrown" /\ pageCount >= 1 /\ ~browser

\* C16 as claimed, for the first of two overlapping scrape calls: every reply
\* request it has in flight carries its own video id as item_id; the browser it
\* launched is the only one open; and from the end of its initBrowser to the
\* return of its walk, page and browser are not null, whatever the other call does.
C16_NoSharedState ==
    /\ pc = "reply_fetch" => itemId = "v1"
    /\ (viaScrape /\ pc \in {"ready", "top_fetch", "top_loop", "reply_fetch"}) =>
          (page /\ browser)
    /\ openBrowsers <= 1

\* C17: when the loaded page showed the login wall and no saved session was
\* applied, scrape returns after that one navigation, without a scroll
\* iteration or a call of parseComments, a Comments with comments = [],
\* needs_auth = true and a non-empty auth_message; the browser is closed by the
\* time the Comments is built and stays closed.
C17_AuthWallShortCircuit ==
    (loginWall /\ ~hasSession /\ aPc \in {"finally", "ended"} /\ ~aThrown) =>
        /\ navigations = 1 /\ scrolls = 0 /\ parseCalls = 0
        /\ aResult.comments = <<>> /\ aResult.needs_auth /\ aResult.auth_message # ""
        /\ ~aBrowser /\ ~aContext /\ ~aPage /\ aOpen = 0
        /\ aPc = "ended" => aEnd = "returned"

\* C17 witness: a Facebook scrape without a session file has returned from a
\* page showing the login wall.
C17_Witness ==
    /\ platform = "facebook" /\ savedSession = "none" /\ loginWall /\ ~hasSession
    /\ aEnd = "returned" /\ aResult.needs_auth

\* C18: in the Comments scrape returns, needs_auth is true exactly when no
\* saved session was applied and either the login wall was detected or
\* parseComments returned no comment; with a session applied needs_auth is
\* false; and whenever needs_auth is true comments is empty and auth_message
\* is not.
C18_NeedsAuthExactly ==
    aEnd = "returned" =>
        /\ aResult.needs_auth <=>
              (~hasSession /\ (loginWall \/ (parseCalls = 1 /\ Len(aComments) = 0)))
        /\ hasSession => ~aResult.needs_auth
        /\ aResult.needs_auth => (aResult.comments = <<>> /\ aResult.auth_message # "")
        /\ ~aResult.needs_auth => (aResult.comments = aComments /\ aResult.auth_message = "")

\* C18 witness: an Instagram scrape without an applied session saw no login
\* wall, parsed zero comments and returned needs_auth = true.
C18_Witness ==
    /\ platform = "instagram" /\ ~hasSession /\ ~loginWall /\ parseCalls = 1
    /\ aComments = <<>> /\ aEnd = "returned" /\ aResult.needs_auth


\* The primitive members of Comments.dict and of Comment.dict.
CommentsFields == {"caption", "video_url", "has_more", "needs_auth", "auth_message"}
CommentFields ==
    {"comment_id", "username", "nickname", "comment", "create_time", "avatar",
     "total_reply", "parent_comment_id", "is_orphan_reply"}

\* a and b are comments with the same value in every member and the same replies.
RECURSIVE SameComment(_, _)
SameComment(a, b) ==
    /\ \A k \in CommentFields : Get(a, k) = Get(b, k)
    /\ "replies" \in DOMAIN a /\ "replies" \in DOMAIN b
    /\ Len(a.replies) = Len(b.replies)
    /\ \A i \in 1..Len(a.replies) : SameComment(a.replies[i], b.replies[i])

SameComments(a, b) ==
    /\ \A k \in CommentsFields : Get(a, k) = Get(b, k)
    /\ "comments" \in DOMAIN a /\ "comments" \in DOMAIN b
    /\ Len(a.comments) = Len(b.comments)
    /\ \A i \in 1..Len(a.comments) : SameComment(a.comments[i], b.comments[i])

C20_FailFastWithoutPage ==
    /\ (InFetch \/ outstanding > 0) => page
    /\ (pc = "thrown" /\ ~viaScrape) =>
           /\ ~page /\ pageCount = 1 /\ outstanding = 0
           /\ retryCount = 0 /\ ~waiting /\ delays = <<>>
           /\ result = NoResult /\ stopReason = "none"

\* C20 witness: getAllComments was called on a new instance and threw.
C20_Witness ==
    pc = "thrown" /\ ~viaScrape /\ ~browser /\ ~page /\ id = "v1" /\ scrapes = 0

\* C21 as stated: the error of a missing page is retried like any other, so a
\* call that met it has used its 3 retries before anything is thrown.
C21_NotInitializedIsRetried ==
    (pc = "thrown" /\ ~viaScrape) => (retryCount = maxRetries /\ Len(delays) = maxRetries)

\* C21: the catch block of fetchWithRetry retries the errors of the request: a
\* wait follows a failed attempt of a request sent through the page while
\* retries are left, one delay per failed attempt and at most 3 retries; the
\* error of a missing page is thrown with no retry and no delay.
C21_RequestErrorsRetried ==
    /\ waiting => (InFetch /\ page /\ retryCount < maxRetries)
    /\ InFetch => /\ retryCount <= maxRetries
                  /\ Len(delays) = retryCount + (IF waiting THEN 1 ELSE 0)
    /\ (pc = "thrown" /\ ~viaScrape) => (retryCount = 0 /\ delays = <<>>)

\* C21 witness: the request of a reply page failed three times and its third
\* retry is in flight.
C21_Witness ==
    /\ pc = "reply_fetch" /\ page /\ ~waiting /\ retryCount = maxRetries
    /\ Len(delays) = maxRetries /\ outstanding = 1

\* C22: given the same responses, the loop of getAllComments and the loop of
\* getAllReplies have requested the same cursors and have stopped, or not, after
\* the same response.
C22_SameGuard ==
    wLoop.requests = rLoop.requests /\ wLoop.looping = rLoop.looping

\* The comment_ids of a tree: each comment's id followed by those of its replies.
RECURSIVE TreeIds(_)
TreeIds(cs) ==
    IF cs = <<>> THEN <<>>
    ELSE <<Head(cs).comment_id>> \o CommentIdsOf(Head(cs).replies) \o TreeIds(Tail(cs))

\* C23: no comment_id occurs twice in the tree a walk returns, the top-level
\* list and every replies list taken together.  Stated for the walks in which
\* every reply cursor advanced, where the resolver's cursor guard plays no part.
C23_NoIdTwiceInTree ==
    (pc = "done" /\ cursorRepeated = {}) =>
        LET ids == TreeIds(result.comments)
        IN \A i, k \in 1..Len(ids) : ids[i] = ids[k] => i = k

\* A step that sends a request of the top-level list, or of the replies list
\* being resolved: a new page or a new attempt of the page.
TopRequested == pc' = "top_fetch" /\ (pageCount' # pageCount \/ retryCount' # retryCount)
ReplyRequested == pc' = "reply_fetch" /\ (replyReqs' # replyReqs \/ retryCount' # retryCount)

\* The responses that end a list: a non-zero status_code, an empty list, or
\* has_more other than 1.
EndsList(j) == j.status_code # 0 \/ Len(j.comments) = 0 \/ j.has_more # 1

\* C24: a null payload, a non-zero status_code or an empty list ends the walk of
\* the top-level list at once, and a page with has_more other than 1 is followed
\* by no further request of the list while its records are processed and after;
\* a returned or thrown walk sends nothing; a null payload or a response that
\* ends a replies list returns the resolver to the for loop with the comment's
\* id in seenCommentIds, and a resolution only starts for an id not yet in it.
C24_EndedListNotRequested ==
    [][/\ (TopFetchExhausted
             \/ (pc = "top_fetch" /\ ~waiting
                   /\ \E j \in CommentListResponse :
                         (j.status_code # 0 \/ Len(j.comments) = 0) /\ TopResponse(j)))
            => pc' = "done"
       /\ (pc \in {"top_loop", "reply_fetch"} /\ json.has_more # 1) => ~TopRequested
       /\ pc \in {"done", "thrown", "ended"} => (~TopRequested /\ ~ReplyRequested)
       /\ (ReplyFetchExhausted
             \/ (pc = "reply_fetch" /\ ~waiting
                   /\ \E j \in ReplyListResponse : EndsList(j) /\ ReplyResponse(j)))
            => (pc' = "top_loop" /\ commentId \in seenCommentIds')
       /\ (pc = "top_loop" /\ pc' = "reply_fetch") => commentId' \notin seenCommentIds
       /\ pc \in {"top_loop", "reply_fetch", "top_fetch"} =>
             seenCommentIds \subseteq seenCommentIds']_vars

\* C24 witness: the first page came with has_more = 0 and an advanced cursor,
\* the replies list of its comment was ended by an empty page with has_more = 1,
\* and the walk returned after that single page.
C24_Witness ==
    /\ pc = "done" /\ stopReason = "has_more" /\ pageCount = 1 /\ cursor = size
    /\ Len(result.comments) = 1 /\ result.comments[1].total_reply = 1
    /\ result.comments[1].replies = <<>>

\* C25: the request in flight of the top-level list carries count 50 and cursor
\* 0 when it is the first of the walk, and otherwise the cursor of the response
\* processed last; the request in flight of a replies list carries count 50 and
\* cursor 0 when it is the first for the comment, and otherwise the cursor of
\* the reply response processed last.
C25_CursorVerbatim ==
    /\ pc = "top_fetch" =>
          ListRequest(cursor) =
             [count |-> 50, cursor |-> IF pageCount = 1 THEN 0 ELSE json.cursor]
    /\ pc = "reply_fetch" =>
          ListRequest(replyCursor) =
             [count |-> 50, cursor |-> IF replyReqs = 1 THEN 0 ELSE replyJson.cursor]

\* C25 witness: on the second page of the walk, the second request of a replies
\* list carries the cursor 0 its first response returned, not 0 plus the page size.
C25_Witness ==
    /\ pc = "reply_fetch" /\ replyReqs = 2 /\ replyCursor = 0 /\ replyJson.cursor = 0
    /\ pageCount = 2 /\ cursor = size /\ json.cursor = size

\* C26: the for loop starts a reply resolution for the record in hand exactly
\* when its id is not in seenCommentIds and its reply_comment_total is above 0,
\* for that id and before anything is pushed; a new record with
\* reply_comment_total 0 is pushed with replies = [] and no request; a
\* duplicate is skipped with no request and no push; a reply request is only
\* sent from the for loop or inside a resolution; and the Comment of a resolved
\* id is pushed by the step that ends its resolution.
C26_RepliesRequestedWhenDue ==
    [][/\ (pc = "top_loop" /\ ~LoopDone) =>
            LET d == json.comments[idx]
                fresh == d.cid \notin seenCommentIds
            IN /\ (pc' = "reply_fetch") <=> (fresh /\ d.reply_comment_total > 0)
               /\ pc' = "reply_fetch" =>
                     /\ commentId' = d.cid /\ replyReqs' = 1 /\ outstanding' = 1
                     /\ allComments' = allComments /\ idx' = idx
               /\ (fresh /\ d.reply_comment_total = 0) =>
                     /\ Len(allComments') = Len(allComments) + 1
                     /\ allComments'[Len(allComments')].comment_id = d.cid
                     /\ allComments'[Len(allComments')].replies = <<>>
                     /\ outstanding' = 0 /\ replyReqs' = 0
               /\ ~fresh =>
                     /\ allComments' = allComments /\ idx' = idx + 1
                     /\ outstanding' = 0 /\ replyReqs' = 0
       /\ ReplyRequested => pc \in {"top_loop", "reply_fetch"}
       /\ (pc = "reply_fetch" /\ allComments' # allComments) =>
             /\ pc' = "top_loop" /\ replyReqs' = 0 /\ outstanding' = 0
             /\ allComments'[Len(allComments')].comment_id = commentId
             /\ allComments'[Len(allComments')].total_reply > 0
             /\ SubSeq(allComments', 1, Len(allComments)) = allComments]_vars

\* C26 witness: a walk of two pages returned two Comments, the first with the
\* one reply fetched for it, the second, of a record with reply_comment_total 0,
\* with none and with no reply record delivered for its id.
C26_Witness ==
    /\ pc = "done" /\ Len(result.comments) = 2
    /\ result.comments[1].total_reply = 1 /\ Len(result.comments[1].replies) = 1
    /\ result.comments[2].total_reply = 0 /\ result.comments[2].replies = <<>>
    /\ delivered[result.comments[1].comment_id] = 1
    /\ delivered[result.comments[2].comment_id] = 0
    /\ pageCount = 2 /\ Len(firstOrder) = 2

\* Every Comment of the list rs has an empty replies list.
Leaves(rs) == \A k \in 1..Len(rs) : rs[k].replies = <<>>

C28_TopCursorsIncrease ==
    LET reqs == wLoop.requests
        N == size * MaxGuardCursorStep
    IN /\ \A i \in 1..(Len(reqs) - 1) : reqs[i] < reqs[i + 1]
       /\ \A i, k \in 1..Len(reqs) : reqs[i] = reqs[k] => i = k
       /\ Len(reqs) <= Cardinality(GuardCursors)
       /\ Len(reqs) <= N + 1

\* C28 witness: the loop requested every cursor value once and was then stopped
\* by its guard on a response that still said has_more = 1.
C28_Witness ==
    /\ wLoop.requests = <<0, 50, 100>> /\ ~wLoop.looping /\ wLoop.hasMore /\ fed = 3

\* C29: at most one login browser is open at any time, and every open login
\* browser is the one the manager holds in activeBrowser.
C29_OneLoginBrowser ==
    /\ Cardinality(loginOpen) <= 1
    /\ loginOpen \subseteq {activeBrowser}

\* C30: for the same session file and the same time, loadSession returns what
\* hasValidSession returns (its own addCookies failures apart), and the valid of
\* getSessionStatus is what hasValidSession returns.
C30_ChecksAgree ==
    /\ (hasValid # "none" /\ loaded \in {"true", "false"}) => loaded = hasValid
    /\ (hasValid # "none" /\ statusValid # "none") => statusValid = hasValid

====
